---- MODULE Spec2Model ----
(***************************************************************************)
(* rpc/src/server/filter.rs: ChannelFilter, a single-threaded stream       *)
(* combinator that sheds new channels once a key has channels_per_key      *)
(* open channels, and Tracker, the handle whose drop reports that the      *)
(* last channel of a key has closed.                                       *)
(*                                                                         *)
(* Shared state (Arc<K>, raii_counter::Counter) is modelled per            *)
(* allocation.  An allocation is made only in the Vacant branch of         *)
(* increment_channels_for_key, so it is named by the arrival that made it. *)
(***************************************************************************)
EXTENDS Integers, Sequences, FiniteSets, TLC

\* ---- bounds of the model ------------------------------------------------
NumKeys == 2
MaxArrivals == 3
MaxCeiling == 2
MaxChanMsgs == 2

Keys == 1..NumKeys
Ids == 1..MaxArrivals
NoKey == 0
NoAlloc == 0

VARIABLES
    channels_per_key,   \* ChannelFilter.channels_per_key
    arrKey,             \* keymaker(item) of every item the upstream has produced
    ended,              \* the upstream has no more items after those of arrKey
    taken,              \* number of items the listener has handed to the filter
    listener_done,      \* Fuse's flag: the listener has returned None
    key_counts,         \* ChannelFilter.key_counts: key -> allocation of its prototype
    counter,            \* allocation -> value of the raii counter
    keyStrong,          \* allocation -> strong count of the Arc<K>
    dropped_keys,       \* the mpsc queue of closed keys
    phase,              \* arrival -> state of the Tracker minted for it
    log,                \* arrival -> what handle_new_channel did with it
    yielded,            \* arrivals returned by poll_next as Ready(Some(channel))
    poll_result,        \* what the last poll_next returned
    completed,          \* poll_next has returned Ready(None)
    notified,           \* allocation -> number of closed-key sends that succeeded
    panicked,           \* "none", or the panic that unwound the caller
    filter_alive,       \* the ChannelFilter has not been dropped
    chan                \* a TrackedChannel and the channel it wraps

vars == <<channels_per_key, arrKey, ended, taken, listener_done, key_counts,
          counter, keyStrong, dropped_keys, phase, log, yielded, poll_result,
          completed, notified, panicked, filter_alive, chan>>

\* ---- helpers over maps ---------------------------------------------------
\* Variant: the prototype is not stored.
MapInsert_Skipped(m, k, v) == m

\* vacant.insert(prototype)
MapInsert(m, k, v) == [x \in DOMAIN m \cup {k} |-> IF x = k THEN v ELSE m[x]]

\* Variant: the entry of a closed key is left in the map.
MapRemove_Kept(m, k) == m

\* HashMap::remove(&key); compact(0.1) only shrinks the backing storage.
MapRemove(m, k) == [x \in DOMAIN m \ {k} |-> m[x]]

\* ---- raii_counter and Arc ------------------------------------------------
\* Variant: the new holder is not counted.
CounterUpgrade_Uncounted(ctr, a) == ctr

\* WeakCounter::upgrade / Counter::clone add one holder.
CounterUpgrade(ctr, a) == [ctr EXCEPT ![a] = @ + 1]

\* Counter::drop removes one holder.
CounterDrop(ctr, a) == [ctr EXCEPT ![a] = @ - 1]

\* ---- the state the filter's own code reads and writes ---------------------
\* passes counts the passes of poll_next's loop within one call.
FilterState ==
    [kc |-> key_counts, ctr |-> counter, ks |-> keyStrong, dk |-> dropped_keys,
     taken |-> taken, done |-> listener_done, log |-> log, phase |-> phase,
     pan |-> panicked, passes |-> 0]

\* ---- increment_channels_for_key ------------------------------------------
\* Variant: the ceiling test is off by one (`>` for `>=`).
AtCeiling_Strict(count) == count > channels_per_key

\* The ceiling test of the Occupied branch.
AtCeiling(count) == count >= channels_per_key

\* Variant: the prototype is built from a Counter that is itself a holder, so
\* the first Tracker of a key reads a count of 2.
VacantBranch_TwoHolders(st, key, id) ==
    [st  |-> [st EXCEPT !.kc = MapInsert(st.kc, key, id),
                        !.ks = [st.ks EXCEPT ![id] = 1],
                        !.ctr = CounterUpgrade([st.ctr EXCEPT ![id] = 1], id)],
     res |-> "admit", alloc |-> id, err |-> NoKey]

\* Entry::Vacant: fresh Arc<K> and counter, prototype stored, Tracker returned.
VacantBranch(st, key, id) ==
    [st  |-> [st EXCEPT !.kc = MapInsert(st.kc, key, id),
                        !.ks = [st.ks EXCEPT ![id] = 1],
                        !.ctr = CounterUpgrade([st.ctr EXCEPT ![id] = 0], id)],
     res |-> "admit", alloc |-> id, err |-> NoKey]

\* Variant: the prototype is upgraded before the ceiling test and the new
\* holder is kept on the reject path.
OccupiedBranch_CountedReject(st, key, id) ==
    LET a == st.kc[key]
        count == st.ctr[a]
        up == CounterUpgrade(st.ctr, a)
    IN  IF AtCeiling(count)
        THEN [st |-> [st EXCEPT !.ctr = up], res |-> "reject",
              alloc |-> NoAlloc, err |-> key]
        ELSE IF st.ks[a] = 0
             THEN [st |-> [st EXCEPT !.pan = "unwrap_none"],
                   res |-> "panic", alloc |-> NoAlloc, err |-> NoKey]
             ELSE [st |-> [st EXCEPT !.ctr = up,
                                     !.ks = [st.ks EXCEPT ![a] = @ + 1]],
                   res |-> "admit", alloc |-> a, err |-> NoKey]

\* Entry::Occupied: reject at the ceiling, else upgrade the prototype.
\* counter.upgrade() is evaluated before key.upgrade().unwrap(); when the
\* Weak<K> is dead the unwrap panics and the unwinding drops the new Counter.
OccupiedBranch(st, key, id) ==
    LET a == st.kc[key]
        count == st.ctr[a]
    IN  IF AtCeiling(count)
        THEN [st |-> st, res |-> "reject", alloc |-> NoAlloc, err |-> key]
        ELSE LET up == CounterUpgrade(st.ctr, a)
             IN  IF st.ks[a] = 0
                 THEN [st |-> [st EXCEPT !.ctr = CounterDrop(up, a),
                                         !.pan = "unwrap_none"],
                       res |-> "panic", alloc |-> NoAlloc, err |-> NoKey]
                 ELSE [st |-> [st EXCEPT !.ctr = up,
                                         !.ks = [st.ks EXCEPT ![a] = @ + 1]],
                       res |-> "admit", alloc |-> a, err |-> NoKey]

IncrementChannelsForKey(st, key, id) ==
    IF key \notin DOMAIN st.kc
    THEN VacantBranch(st, key, id)
    ELSE OccupiedBranch(st, key, id)

\* ---- handle_new_channel ---------------------------------------------------
NoRecord ==
    [key |-> NoKey, present |-> FALSE, pre_count |-> 0, pre_live |-> 0,
     result |-> "none", err |-> NoKey, count |-> 0, alloc |-> NoAlloc]

\* Trackers of key k that have not begun to drop, in filter state st.
LiveIn(st, k) == {j \in Ids : st.phase[j] = "live" /\ st.log[j].key = k}

\* The record keeps what the call saw and returned: the key, whether the map
\* had an entry, the entry's count and the number of live Trackers before the
\* call, Ok/Err, the key inside Err, the count read after the call (through
\* the new Tracker, or through the untouched entry on Err), and the
\* Tracker's allocation.
HandleNewChannel(st, id) ==
    LET key == arrKey[id]
        present == key \in DOMAIN st.kc
        pre == IF present THEN st.ctr[st.kc[key]] ELSE 0
        r == IncrementChannelsForKey(st, key, id)
        rec == [key |-> key, present |-> present, pre_count |-> pre,
                pre_live |-> Cardinality(LiveIn(st, key)),
                result |-> r.res, err |-> r.err,
                count |-> CASE r.res = "admit" -> r.st.ctr[r.alloc]
                            [] r.res = "reject" -> r.st.ctr[r.st.kc[key]]
                            [] OTHER -> 0,
                alloc |-> r.alloc]
    IN  [st  |-> [r.st EXCEPT !.log = [r.st.log EXCEPT ![id] = rec],
                              !.phase = [r.st.phase EXCEPT ![id] =
                                  IF r.res = "admit" THEN "live" ELSE @]],
         res |-> r.res, id |-> id]

\* ---- poll_listener --------------------------------------------------------
\* listener is Fuse<S>: once S has returned None it is not polled again.
PollListenerF(st) ==
    IF st.done
    THEN [st |-> st, res |-> "none", id |-> 0]
    ELSE IF st.taken < Len(arrKey)
    THEN HandleNewChannel([st EXCEPT !.taken = @ + 1], st.taken + 1)
    ELSE IF ended
    THEN [st |-> [st EXCEPT !.done = TRUE], res |-> "none", id |-> 0]
    ELSE [st |-> st, res |-> "pending", id |-> 0]

\* ---- poll_closed_channels -------------------------------------------------
\* Variant: the filter keeps no sender of its own.
HeldByFilter_None(alive) == 0

\* ChannelFilter.dropped_keys_tx: the sender the filter itself holds.
HeldByFilter(alive) == IF alive THEN 1 ELSE 0

\* The senders of the closed-key queue: the filter's own, one clone in every
\* prototype of the map and one in every Tracker not yet dropped.
SenderHandles(st) ==
    HeldByFilter(TRUE) + Cardinality(DOMAIN st.kc)
        + Cardinality({i \in Ids : st.phase[i] \notin {"none", "dropped"}})

\* The receiver yields a queued key, else None when no sender is left
\* (the unreachable!() arm), else Pending.
PollClosedChannelsF(st) ==
    IF st.dk # <<>>
    THEN [st |-> [st EXCEPT !.kc = MapRemove(st.kc, Head(st.dk)),
                            !.dk = Tail(st.dk)],
          res |-> "ready"]
    ELSE IF SenderHandles(st) = 0
    THEN [st |-> [st EXCEPT !.pan = "unreachable_closed"], res |-> "panic"]
    ELSE [st |-> st, res |-> "pending"]

\* ---- Stream::poll_next ------------------------------------------------------
\* Variant: the Err arm returns instead of continuing.
MatchArms_ErrReturned(l, c) ==
    CASE l = "admit" -> "return_item"
      [] l = "reject" -> "return_item"
      [] c = "ready" -> "continue"
      [] l = "pending" /\ c = "pending" -> "return_pending"
      [] OTHER -> "return_none"

\* Variant: the (Ready(None), Pending) arm returns Pending.
MatchArms_NoneIsPending(l, c) ==
    CASE l = "admit" -> "return_item"
      [] l = "reject" -> "continue"
      [] c = "ready" -> "continue"
      [] OTHER -> "return_pending"

\* Variant: the (Ready(None), _) arm is tried before the (_, Ready(())) arm.
MatchArms_NoneFirst(l, c) ==
    CASE l = "admit" -> "return_item"
      [] l = "reject" -> "continue"
      [] l = "none" -> "return_none"
      [] c = "ready" -> "continue"
      [] OTHER -> "return_pending"

\* The match of poll_next over (poll_listener, poll_closed_channels).
MatchArms(l, c) ==
    CASE l = "admit" -> "return_item"
      [] l = "reject" -> "continue"
      [] c = "ready" -> "continue"
      [] l = "pending" /\ c = "pending" -> "return_pending"
      [] OTHER -> "return_none"

\* One pass of the loop builds the tuple: poll_listener first, then
\* poll_closed_channels, both before the match.  A panic in poll_listener
\* unwinds before poll_closed_channels is called.
RECURSIVE PollNextLoop(_)
PollNextLoop(st) ==
    LET l == PollListenerF([st EXCEPT !.passes = @ + 1])
    IN  IF l.res = "panic"
        THEN [st |-> l.st, ret |-> "panic", id |-> 0]
        ELSE LET c == PollClosedChannelsF(l.st)
                 arm == MatchArms(l.res, c.res)
             IN  CASE c.res = "panic" ->
                        [st |-> c.st, ret |-> "panic", id |-> 0]
                   [] arm = "return_item" ->
                        [st |-> c.st, ret |-> "item", id |-> l.id]
                   [] arm = "continue" -> PollNextLoop(c.st)
                   [] arm = "return_pending" ->
                        [st |-> c.st, ret |-> "pending", id |-> 0]
                   [] OTHER -> [st |-> c.st, ret |-> "complete", id |-> 0]

\* ---- Tracker::drop ----------------------------------------------------------
\* Variant: the test expects the count to be already decremented.
IsLastHolder_Zero(count) == count < 1

\* Variant: the test is off by one the other way.
IsLastHolder_Two(count) == count <= 2

\* The test `self.counter.count() <= 1`.
IsLastHolder(count) == count <= 1

\* Variant: the result of the send is unwrapped instead of discarded.
SendOutcome_Unwrapped(alive) == IF alive THEN "sent" ELSE "panic"

\* `let _ = self.dropped_keys.unbounded_send(key)`: the send fails when the
\* receiver is gone and the failure is discarded.
SendOutcome(alive) == IF alive THEN "sent" ELSE "ignored"

LiveFor(k) == {i \in Ids : phase[i] = "live" /\ log[i].key = k}

\* ---- TrackedChannel ------------------------------------------------------------
\* The wrapped channel C is any Stream + Sink.  It is modelled as a channel
\* with an inbox fed by the peer, a one-slot send buffer, the items flushed to
\* the peer, and a closed flag; its results are Poll/Result values.
NewInner ==
    [inbox |-> <<>>, in_done |-> FALSE, buf |-> <<>>, out |-> <<>>,
     closed |-> FALSE]

InnerPollNext(c) ==
    IF c.inbox # <<>>
    THEN [c |-> [c EXCEPT !.inbox = Tail(@)], ret |-> <<"ready_some", Head(c.inbox)>>]
    ELSE IF c.in_done
    THEN [c |-> c, ret |-> <<"ready_none", 0>>]
    ELSE [c |-> c, ret |-> <<"pending", 0>>]

InnerPollReady(c) ==
    IF c.closed THEN [c |-> c, ret |-> <<"ready_err", 0>>]
    ELSE IF c.buf # <<>> THEN [c |-> c, ret |-> <<"pending", 0>>]
    ELSE [c |-> c, ret |-> <<"ready_ok", 0>>]

InnerStartSend(c, x) ==
    IF c.closed \/ c.buf # <<>>
    THEN [c |-> c, ret |-> <<"err", x>>]
    ELSE [c |-> [c EXCEPT !.buf = <<x>>], ret |-> <<"ok", 0>>]

InnerPollFlush(c) ==
    IF c.closed THEN [c |-> c, ret |-> <<"ready_err", 0>>]
    ELSE [c |-> [c EXCEPT !.out = @ \o c.buf, !.buf = <<>>], ret |-> <<"ready_ok", 0>>]

InnerPollClose(c) ==
    [c |-> [c EXCEPT !.out = @ \o c.buf, !.buf = <<>>, !.closed = TRUE],
     ret |-> <<"ready_ok", 0>>]

\* impl Stream for TrackedChannel: self.channel().poll_next(cx)
TrackedPollNext(tc) ==
    LET r == InnerPollNext(tc.inner)
    IN  [tc |-> [tc EXCEPT !.inner = r.c], ret |-> r.ret]

\* impl Sink for TrackedChannel: self.channel().poll_ready(cx)
TrackedPollReady(tc) ==
    LET r == InnerPollReady(tc.inner)
    IN  [tc |-> [tc EXCEPT !.inner = r.c], ret |-> r.ret]

\* Variant: the item is accepted and not handed to the inner sink.
TrackedStartSend_Swallowed(tc, x) == [tc |-> tc, ret |-> <<"ok", 0>>]

\* self.channel().start_send(item)
TrackedStartSend(tc, x) ==
    LET r == InnerStartSend(tc.inner, x)
    IN  [tc |-> [tc EXCEPT !.inner = r.c], ret |-> r.ret]

\* self.channel().poll_flush(cx)
TrackedPollFlush(tc) ==
    LET r == InnerPollFlush(tc.inner)
    IN  [tc |-> [tc EXCEPT !.inner = r.c], ret |-> r.ret]

\* self.channel().poll_close(cx)
TrackedPollClose(tc) ==
    LET r == InnerPollClose(tc.inner)
    IN  [tc |-> [tc EXCEPT !.inner = r.c], ret |-> r.ret]

\* A TrackedChannel around a new channel, beside a second channel of the same
\* type that is given the same input and driven without the wrapper; ret and
\* direct_ret are the results of the last call on each, read and direct_read
\* the items each has yielded, fed the items the peer has sent, accepted the
\* items whose start_send through the wrapper returned Ok, sent the number of
\* start_send calls made.
NewTrackedChannel ==
    [tracked |-> [inner |-> NewInner], direct |-> NewInner,
     ret |-> <<"none", 0>>, direct_ret |-> <<"none", 0>>,
     read |-> <<>>, direct_read |-> <<>>, fed |-> <<>>, accepted |-> <<>>,
     sent |-> 0]

\* ---- actions ---------------------------------------------------------------
Init ==
    /\ channels_per_key \in 0..MaxCeiling
    /\ arrKey = <<>>
    /\ ended = FALSE
    /\ taken = 0
    /\ listener_done = FALSE
    /\ key_counts = <<>>
    /\ counter = [a \in Ids |-> 0]
    /\ keyStrong = [a \in Ids |-> 0]
    /\ dropped_keys = <<>>
    /\ phase = [i \in Ids |-> "none"]
    /\ log = [i \in Ids |-> NoRecord]
    /\ yielded = <<>>
    /\ poll_result = "none"
    /\ completed = FALSE
    /\ notified = [a \in Ids |-> 0]
    /\ panicked = "none"
    /\ filter_alive = TRUE
    /\ chan = NewTrackedChannel

SetFilter(st) ==
    /\ key_counts' = st.kc
    /\ counter' = st.ctr
    /\ keyStrong' = st.ks
    /\ dropped_keys' = st.dk
    /\ taken' = st.taken
    /\ listener_done' = st.done
    /\ log' = st.log
    /\ phase' = st.phase
    /\ panicked' = st.pan

\* The upstream produces a raw channel whose key is k.  The filter treats
\* keys alike (they are only hashed and compared), so keys are named in the
\* order of their first arrival.
FreshKeyOrder(k) == \A j \in 1..(k - 1) : \E i \in 1..Len(arrKey) : arrKey[i] = j

Arrive(k) ==
    /\ panicked = "none"
    /\ filter_alive
    /\ UNCHANGED <<filter_alive, chan>>
    /\ ~ended
    /\ FreshKeyOrder(k)
    /\ Len(arrKey) < MaxArrivals
    /\ arrKey' = Append(arrKey, k)
    /\ UNCHANGED <<channels_per_key, ended, taken, listener_done, key_counts,
                   counter, keyStrong, dropped_keys, phase, log, yielded,
                   poll_result, completed, notified, panicked>>

\* The upstream ends: after the items already produced it returns None.
EndListener ==
    /\ panicked = "none"
    /\ filter_alive
    /\ UNCHANGED <<filter_alive, chan>>
    /\ ~ended
    /\ ended' = TRUE
    /\ UNCHANGED <<channels_per_key, arrKey, taken, listener_done, key_counts,
                   counter, keyStrong, dropped_keys, phase, log, yielded,
                   poll_result, completed, notified, panicked>>

\* A direct call of poll_listener.
PollListener ==
    /\ panicked = "none"
    /\ filter_alive
    /\ UNCHANGED <<filter_alive, chan>>
    /\ LET r == PollListenerF(FilterState)
       IN  /\ r.res # "pending"
           /\ SetFilter(r.st)
    /\ UNCHANGED <<channels_per_key, arrKey, ended, yielded, poll_result,
                   completed, notified>>

\* A direct call of poll_closed_channels.
PollClosedChannels ==
    /\ panicked = "none"
    /\ filter_alive
    /\ UNCHANGED <<filter_alive, chan>>
    /\ LET r == PollClosedChannelsF(FilterState)
       IN  /\ r.res # "pending"
           /\ SetFilter(r.st)
    /\ UNCHANGED <<channels_per_key, arrKey, ended, yielded, poll_result,
                   completed, notified>>

\* A call of the stream's poll_next, run to its return.
PollNext ==
    /\ panicked = "none"
    /\ filter_alive
    /\ UNCHANGED <<filter_alive, chan>>
    /\ LET r == PollNextLoop(FilterState)
       IN  /\ SetFilter(r.st)
           /\ yielded' = IF r.ret = "item" THEN Append(yielded, r.id) ELSE yielded
           /\ poll_result' = r.ret
           /\ completed' = (completed \/ r.ret = "complete")
    /\ UNCHANGED <<channels_per_key, arrKey, ended, notified>>

\* Tracker::drop followed by the drop of the fields, on the filter's thread.
\* Arc::try_unwrap succeeds only for the sole strong holder.
DropTracker(i) ==
    /\ panicked = "none"
    /\ UNCHANGED <<filter_alive, chan>>
    /\ phase[i] = "live"
    /\ LET a == log[i].alloc
           k == log[i].key
       IN  IF IsLastHolder(counter[a])
           THEN IF keyStrong[a] = 1
                THEN LET out == SendOutcome(filter_alive)
                     IN  IF out = "panic"
                         THEN /\ panicked' = "send_failed"
                              /\ UNCHANGED <<dropped_keys, notified, keyStrong,
                                             counter, phase>>
                         ELSE /\ dropped_keys' = IF out = "sent"
                                                 THEN Append(dropped_keys, k)
                                                 ELSE dropped_keys
                              /\ notified' = IF out = "sent"
                                             THEN [notified EXCEPT ![a] = @ + 1]
                                             ELSE notified
                              /\ keyStrong' = [keyStrong EXCEPT ![a] = 0]
                              /\ counter' = CounterDrop(counter, a)
                              /\ phase' = [phase EXCEPT ![i] = "dropped"]
                              /\ panicked' = panicked
                ELSE /\ panicked' = "unreachable_drop"
                     /\ UNCHANGED <<dropped_keys, notified, keyStrong, counter, phase>>
           ELSE /\ keyStrong' = [keyStrong EXCEPT ![a] = @ - 1]
                /\ counter' = CounterDrop(counter, a)
                /\ phase' = [phase EXCEPT ![i] = "dropped"]
                /\ UNCHANGED <<dropped_keys, notified, panicked>>
    /\ UNCHANGED <<channels_per_key, arrKey, ended, taken, listener_done,
                   key_counts, log, yielded, poll_result, completed>>

Next ==
    \/ \E k \in Keys : Arrive(k)
    \/ EndListener
    \/ PollListener
    \/ PollClosedChannels
    \/ PollNext
    \/ \E i \in Ids : DropTracker(i)

Spec == Init /\ [][Next]_vars

\* ---- the filter dropped before its channels ---------------------------------
\* Dropping the ChannelFilter drops the listener, the map of prototypes (weak
\* references only) and both ends of the closed-key queue it holds, and with
\* them the output stream; Trackers already handed out keep their key, their
\* counter and their sender.
DropFilter ==
    /\ panicked = "none"
    /\ filter_alive
    /\ filter_alive' = FALSE
    /\ key_counts' = <<>>
    /\ dropped_keys' = <<>>
    /\ arrKey' = <<>>
    /\ ended' = FALSE
    /\ taken' = 0
    /\ listener_done' = FALSE
    /\ yielded' = <<>>
    /\ poll_result' = "none"
    /\ completed' = FALSE
    /\ UNCHANGED <<channels_per_key, counter, keyStrong, phase, log, notified,
                   panicked, chan>>

\* ---- a TrackedChannel in the consumer's hands --------------------------------
FilterUnchanged ==
    UNCHANGED <<channels_per_key, arrKey, ended, taken, listener_done,
                key_counts, counter, keyStrong, dropped_keys, phase, log,
                yielded, poll_result, completed, notified, panicked,
                filter_alive>>

\* What a call through the wrapper (t) and the same call on the channel
\* driven directly (d) leave behind.
AfterCall(t, d) ==
    [chan EXCEPT !.tracked = t.tc, !.direct = d.c,
                 !.ret = t.ret, !.direct_ret = d.ret,
                 !.read = IF t.ret[1] = "ready_some" THEN Append(@, t.ret[2]) ELSE @,
                 !.direct_read = IF d.ret[1] = "ready_some" THEN Append(@, d.ret[2]) ELSE @]

\* The peer sends item x on the channel.
ChanPeerSend(x) ==
    /\ Len(chan.fed) < MaxChanMsgs
    /\ ~chan.direct.in_done
    /\ chan' = [chan EXCEPT !.tracked.inner.inbox = Append(@, x),
                            !.direct.inbox = Append(@, x),
                            !.fed = Append(@, x)]
    /\ FilterUnchanged

\* The peer closes its sending half.
ChanPeerClose ==
    /\ ~chan.direct.in_done
    /\ chan' = [chan EXCEPT !.tracked.inner.in_done = TRUE, !.direct.in_done = TRUE]
    /\ FilterUnchanged

ChanPollNext ==
    /\ chan' = AfterCall(TrackedPollNext(chan.tracked), InnerPollNext(chan.direct))
    /\ FilterUnchanged

ChanPollReady ==
    /\ chan' = AfterCall(TrackedPollReady(chan.tracked), InnerPollReady(chan.direct))
    /\ FilterUnchanged

ChanStartSend(x) ==
    /\ chan.sent < MaxChanMsgs
    /\ LET t == TrackedStartSend(chan.tracked, x)
       IN  chan' = [AfterCall(t, InnerStartSend(chan.direct, x)) EXCEPT
                       !.sent = @ + 1,
                       !.accepted = IF t.ret[1] = "ok" THEN Append(@, x) ELSE @]
    /\ FilterUnchanged

ChanPollFlush ==
    /\ chan' = AfterCall(TrackedPollFlush(chan.tracked), InnerPollFlush(chan.direct))
    /\ FilterUnchanged

ChanPollClose ==
    /\ chan' = AfterCall(TrackedPollClose(chan.tracked), InnerPollClose(chan.direct))
    /\ FilterUnchanged

NextChannel ==
    \/ \E x \in 1..MaxChanMsgs : ChanPeerSend(x)
    \/ ChanPeerClose
    \/ ChanPollNext
    \/ ChanPollReady
    \/ \E x \in 1..MaxChanMsgs : ChanStartSend(x)
    \/ ChanPollFlush
    \/ ChanPollClose

\* The reads and writes made on one admitted channel.
SpecChannel == Init /\ [][NextChannel]_vars

NextTeardown ==
    \/ \E k \in Keys : Arrive(k)
    \/ EndListener
    \/ PollListener
    \/ PollClosedChannels
    \/ PollNext
    \/ \E i \in Ids : DropTracker(i)
    \/ DropFilter

\* The filter's life up to and after its drop.
SpecTeardown == Init /\ [][NextTeardown]_vars

\* ---- Tracker::drop on other threads ------------------------------------------
\* A TrackedChannel handed to the server may be dropped on any thread, so the
\* steps of one drop interleave with those of another and with the filter:
\* the read of the count, try_unwrap and send, then the drop of the fields in
\* declaration order (key, counter, dropped_keys).

\* `if self.counter.count() <= 1`
DropCheck(i) ==
    /\ panicked = "none"
    /\ UNCHANGED <<filter_alive, chan>>
    /\ phase[i] = "live"
    /\ phase' = [phase EXCEPT ![i] =
          IF IsLastHolder(counter[log[i].alloc]) THEN "unwrap" ELSE "release_key"]
    /\ UNCHANGED <<channels_per_key, arrKey, ended, taken, listener_done,
                   key_counts, counter, keyStrong, dropped_keys, log, yielded,
                   poll_result, completed, notified, panicked>>

\* `match Arc::try_unwrap(self.key.take().unwrap())`: send, or unreachable!().
DropUnwrapSend(i) ==
    /\ panicked = "none"
    /\ UNCHANGED <<filter_alive, chan>>
    /\ phase[i] = "unwrap"
    /\ LET a == log[i].alloc
       IN  IF keyStrong[a] = 1
           THEN LET out == SendOutcome(filter_alive)
                IN  IF out = "panic"
                    THEN /\ panicked' = "send_failed"
                         /\ UNCHANGED <<keyStrong, dropped_keys, notified, phase>>
                    ELSE /\ keyStrong' = [keyStrong EXCEPT ![a] = 0]
                         /\ dropped_keys' = IF out = "sent"
                                            THEN Append(dropped_keys, log[i].key)
                                            ELSE dropped_keys
                         /\ notified' = IF out = "sent"
                                        THEN [notified EXCEPT ![a] = @ + 1]
                                        ELSE notified
                         /\ phase' = [phase EXCEPT ![i] = "release_counter"]
                         /\ panicked' = panicked
           ELSE /\ panicked' = "unreachable_drop"
                /\ UNCHANGED <<keyStrong, dropped_keys, notified, phase>>
    /\ UNCHANGED <<channels_per_key, arrKey, ended, taken, listener_done,
                   key_counts, counter, log, yielded, poll_result, completed>>

\* The field `key: Option<Arc<K>>` is dropped while still Some.
DropKeyField(i) ==
    /\ panicked = "none"
    /\ UNCHANGED <<filter_alive, chan>>
    /\ phase[i] = "release_key"
    /\ keyStrong' = [keyStrong EXCEPT ![log[i].alloc] = @ - 1]
    /\ phase' = [phase EXCEPT ![i] = "release_counter"]
    /\ UNCHANGED <<channels_per_key, arrKey, ended, taken, listener_done,
                   key_counts, counter, dropped_keys, log, yielded, poll_result,
                   completed, notified, panicked>>

\* The field `counter: Counter` is dropped.
DropCounterField(i) ==
    /\ panicked = "none"
    /\ UNCHANGED <<filter_alive, chan>>
    /\ phase[i] = "release_counter"
    /\ counter' = CounterDrop(counter, log[i].alloc)
    /\ phase' = [phase EXCEPT ![i] = "dropped"]
    /\ UNCHANGED <<channels_per_key, arrKey, ended, taken, listener_done,
                   key_counts, keyStrong, dropped_keys, log, yielded,
                   poll_result, completed, notified, panicked>>

NextMT ==
    \/ \E k \in Keys : Arrive(k)
    \/ EndListener
    \/ PollListener
    \/ PollClosedChannels
    \/ PollNext
    \/ \E i \in Ids : DropCheck(i)
    \/ \E i \in Ids : DropUnwrapSend(i)
    \/ \E i \in Ids : DropKeyField(i)
    \/ \E i \in Ids : DropCounterField(i)

\* Trackers dropped on threads of their own.
SpecMT == Init /\ [][NextMT]_vars

\* ---- properties ------------------------------------------------------------
Handled(i) == log[i].result # "none"
Queued(k) == \E n \in 1..Len(dropped_keys) : dropped_keys[n] = k
TrackersOf(a) == {i \in Ids : phase[i] # "none" /\ log[i].alloc = a}

\* C1: with a ceiling of at least 1, a key never has more live Trackers than
\* channels_per_key; an arrival that finds channels_per_key live Trackers is
\* rejected and gets its own key back; an arrival that finds fewer (a new key,
\* or at least one live Tracker) is admitted and raises the count by one.
C1_CeilingEnforced ==
    channels_per_key >= 1 =>
        /\ \A k \in Keys : Cardinality(LiveFor(k)) <= channels_per_key
        /\ \A i \in Ids :
              (Handled(i) /\ log[i].pre_live = channels_per_key) =>
                  /\ log[i].result = "reject"
                  /\ log[i].err = arrKey[i]
        /\ \A i \in Ids :
              (/\ Handled(i)
               /\ log[i].pre_live < channels_per_key
               /\ (~log[i].present \/ log[i].pre_live >= 1)) =>
                  /\ log[i].result = "admit"
                  /\ log[i].count = log[i].pre_live + 1

\* Two channels of one key are open under a ceiling of 2 and a third arrival
\* for that key has been rejected.
C1_Witness ==
    /\ channels_per_key = 2
    /\ \E i \in Ids :
          /\ log[i].result = "reject"
          /\ log[i].pre_live = 2
          /\ Cardinality(LiveFor(log[i].key)) = 2

\* C2: an arrival that finds its key's entry still in the map with no live
\* Tracker left (the closed-key notification not yet processed) is admitted
\* with a live count of 1 and nothing fails.
C2_ReuseAfterExhaustion ==
    /\ panicked # "unwrap_none"
    /\ channels_per_key >= 1 =>
          \A i \in Ids :
              (Handled(i) /\ log[i].present /\ log[i].pre_live = 0) =>
                  /\ log[i].result = "admit"
                  /\ log[i].count = 1

\* C3: with channels_per_key = 0 no arrival is admitted and nothing is yielded.
C3_ZeroAdmitsNothing ==
    channels_per_key = 0 =>
        /\ \A i \in Ids : log[i].result \in {"none", "reject"}
        /\ yielded = <<>>

C5_ReferenceAccounting ==
    /\ \A i \in Ids :
          phase[i] = "live" =>
              counter[log[i].alloc] = Cardinality(LiveFor(log[i].key))
    /\ \A k \in DOMAIN key_counts :
          counter[key_counts[k]] = Cardinality(LiveFor(k))
    /\ \A i \in Ids :
          log[i].result = "reject" =>
              /\ log[i].count = log[i].pre_count
              /\ log[i].pre_count = log[i].pre_live

\* Two channels of a key were admitted, one was dropped with no cleanup poll
\* since, an arrival was rejected, and the count reads 1.
C5_Witness ==
    \E i, j, r \in Ids :
        /\ i # j
        /\ log[i].key = log[j].key
        /\ log[r].key = log[i].key
        /\ log[r].result = "reject"
        /\ phase[i] = "live"
        /\ phase[j] = "dropped"
        /\ log[i].alloc = log[j].alloc
        /\ counter[log[i].alloc] = 1

\* C6: every item of the output stream is an arrival the listener handed over
\* and the filter admitted, and no arrival is yielded twice.
C6_OutputOnlyAdmitted ==
    /\ \A n \in 1..Len(yielded) :
          /\ yielded[n] \in 1..taken
          /\ log[yielded[n]].result = "admit"
    /\ \A n, m \in 1..Len(yielded) : yielded[n] = yielded[m] => n = m

\* poll_next has skipped a rejected arrival and yielded a later one.
C6_Witness ==
    \E i \in Ids :
        /\ log[i].result = "reject"
        /\ \E n \in 1..Len(yielded) : yielded[n] > i

\* C7: a poll_next made when the listener is exhausted and no closed-key
\* notification is queued reports completion, and once completion has been
\* reported no step yields an item.
C7_Termination ==
    [][/\ (PollNext /\ ended /\ taken = Len(arrKey) /\ dropped_keys = <<>>)
            => poll_result' = "complete"
       /\ completed => (yielded' = yielded /\ completed')]_vars

\* Completion was reported after an item had been yielded, and a later
\* poll_next reported it again.
C7_Witness ==
    /\ completed
    /\ poll_result = "complete"
    /\ listener_done
    /\ Len(yielded) >= 1
    /\ key_counts = <<>>
    /\ \E i \in Ids : phase[i] = "dropped"

\* C8: a Tracker's drop appends its key to the closed-key queue exactly when
\* no other Tracker of that key is live, and appends nothing otherwise.
C8_NotifyOnlyLast ==
    [][\A i \in Ids :
          (phase[i] = "live" /\ phase'[i] = "dropped") =>
              IF LiveFor(log[i].key) = {i}
              THEN /\ dropped_keys' = Append(dropped_keys, log[i].key)
                   /\ notified'[log[i].alloc] = 1
              ELSE /\ dropped_keys' = dropped_keys
                   /\ notified'[log[i].alloc] = 0]_vars

\* Two Trackers of one key were dropped one after the other and one
\* notification was sent for them.
C8_Witness ==
    \E i, j \in Ids :
        /\ i # j
        /\ log[i].alloc = log[j].alloc
        /\ phase[i] = "dropped"
        /\ phase[j] = "dropped"
        /\ notified[log[i].alloc] = 1

\* C9: an arrival whose key has no entry in key_counts is admitted with a
\* live count of 1.
C9_AbsentAlwaysAdmitted ==
    \A i \in Ids :
        (Handled(i) /\ ~log[i].present) =>
            /\ log[i].result = "admit"
            /\ log[i].count = 1

\* A key had an admitted and a rejected arrival, was cleaned up, and its next
\* arrival was admitted as a new key.
C9_Witness ==
    \E i, j, r \in Ids :
        /\ j < r
        /\ r < i
        /\ log[j].key = log[i].key
        /\ log[r].key = log[i].key
        /\ log[j].result = "admit"
        /\ log[r].result = "reject"
        /\ ~log[i].present
        /\ log[i].result = "admit"

\* C10: with Trackers dropped on threads of their own, once every Tracker of
\* an allocation has finished dropping exactly one closed-key notification
\* has been sent for it.
C10_OneNotificationAcrossThreads ==
    \A a \in Ids :
        (TrackersOf(a) # {} /\ \A i \in TrackersOf(a) : phase[i] = "dropped")
            => notified[a] = 1

\* C11: once the filter is gone, the drop of the last Tracker of a key
\* completes without a panic, enqueues nothing, and leaves every other
\* Tracker, counter and key as it was.
C11_DropAfterFilterIsSafe ==
    [][~filter_alive =>
          /\ panicked' = "none"
          /\ dropped_keys' = <<>>
          /\ \A i \in Ids :
                (phase[i] = "live" /\ LiveFor(log[i].key) = {i} /\ phase'[i] # "live") =>
                    /\ phase'[i] = "dropped"
                    /\ counter'[log[i].alloc] = 0
                    /\ \A j \in Ids \ {i} : phase'[j] = phase[j]
                    /\ \A a \in Ids \ {log[i].alloc} :
                          /\ counter'[a] = counter[a]
                          /\ keyStrong'[a] = keyStrong[a]]_vars

\* The filter is gone, the only Tracker of one key was dropped after it (no
\* send succeeded for it), and a Tracker of another key is still live.
C11_Witness ==
    /\ ~filter_alive
    /\ panicked = "none"
    /\ \E i, j \in Ids :
          /\ phase[i] = "dropped"
          /\ \A t \in TrackersOf(log[i].alloc) : phase[t] = "dropped"
          /\ notified[log[i].alloc] = 0
          /\ phase[j] = "live"
          /\ log[j].key # log[i].key

\* C12: after any sequence of calls, the channel behind the wrapper is in the
\* state of the same channel driven directly, every call returned what the
\* direct call returned, the items read are the peer's items in order, and
\* the items accepted by start_send are the inner sink's items in order.
C12_PassThrough ==
    /\ chan.tracked.inner = chan.direct
    /\ chan.ret = chan.direct_ret
    /\ chan.read = chan.direct_read
    /\ chan.read \o chan.tracked.inner.inbox = chan.fed
    /\ chan.tracked.inner.out \o chan.tracked.inner.buf = chan.accepted

\* Two items were read in the peer's order, one item was sent and flushed,
\* the channel was closed, and poll_ready then returned the inner sink's error.
C12_Witness ==
    /\ chan.read = <<2, 1>>
    /\ chan.tracked.inner.out = <<2>>
    /\ chan.tracked.inner.closed
    /\ chan.ret = <<"ready_err", 0>>

\* C13: a poll_next that finds a closed-key notification for key K queued and
\* an arrival for K waiting removes K's entry first, so the arrival is
\* decided against a map without K.
C13_ClosedKeysBeforeArrivals ==
    [][(/\ PollNext
        /\ dropped_keys # <<>>
        /\ taken < Len(arrKey)
        /\ arrKey[taken + 1] = Head(dropped_keys))
          => (/\ Handled(taken + 1)'
              /\ ~log'[taken + 1].present)]_vars

C15_NoPrematureCompletion ==
    [][(PollNext /\ poll_result' = "complete") =>
          /\ ended
          /\ listener_done'
          /\ taken' = Len(arrKey)
          /\ dropped_keys' = <<>>
          /\ \A n \in 1..Len(dropped_keys) :
                dropped_keys[n] \notin DOMAIN key_counts']_vars

\* Completion was reported by a poll_next that yielded nothing before, with
\* a channel admitted and dropped and its key gone from the map.
C15_Witness ==
    /\ poll_result = "complete"
    /\ yielded = <<>>
    /\ dropped_keys = <<>>
    /\ key_counts = <<>>
    /\ \E i \in Ids : phase[i] = "dropped" /\ notified[log[i].alloc] = 1

\* C16: poll_next returns Pending only with no arrival waiting and no
\* notification queued, and a call made while an arrival is waiting whose key
\* has fewer than channels_per_key live Trackers returns an item.
C16_NoStall ==
    [][PollNext =>
          /\ poll_result' = "pending" =>
                (taken' = Len(arrKey) /\ dropped_keys' = <<>>)
          /\ (\E i \in (taken + 1)..Len(arrKey) :
                 Cardinality(LiveFor(arrKey[i])) < channels_per_key)
                => poll_result' = "item"]_vars

\* C17: a poll_listener call that rejects its arrival leaves the map, the
\* counters, the keys, the Trackers and the closed-key queue as they were.
C17_RejectChangesNothing ==
    [][(PollListener /\ taken' = taken + 1 /\ log'[taken + 1].result = "reject") =>
          /\ key_counts' = key_counts
          /\ counter' = counter
          /\ keyStrong' = keyStrong
          /\ phase' = phase
          /\ dropped_keys' = dropped_keys]_vars

\* An arrival was rejected at a ceiling of 1 while the key's one Tracker is
\* still live and counted once.
C17_Witness ==
    /\ channels_per_key = 1
    /\ \E i, j \in Ids :
          /\ log[i].result = "reject"
          /\ log[j].key = log[i].key
          /\ phase[j] = "live"
          /\ counter[log[j].alloc] = 1
          /\ key_counts[log[i].key] = log[j].alloc

\* C18: while the filter exists the closed-key queue never reports its end,
\* so the unreachable!() arm of poll_closed_channels is never taken.
C18_ClosedQueueNeverEnds ==
    panicked # "unreachable_closed"

\* The queue was polled empty by poll_next with every Tracker dropped and no
\* prototype left in the map: the filter's own sender is the only one.
C18_Witness ==
    /\ poll_result = "pending"
    /\ key_counts = <<>>
    /\ dropped_keys = <<>>
    /\ taken = Len(arrKey)
    /\ \A i \in Ids : phase[i] \in {"none", "dropped"}
    /\ \E i \in Ids : phase[i] = "dropped"
    /\ SenderHandles(FilterState) = 1

\* C19: with everything on one thread the strong count of a key's Arc equals
\* the key's live count, and the unreachable!() arm of Tracker::drop is never
\* taken.
C19_KeyHoldersEqualCount ==
    /\ \A a \in Ids : keyStrong[a] = counter[a]
    /\ panicked # "unreachable_drop"

\* Of two Trackers of one key, the first drop left one holder and the second
\* reclaimed the key and sent it.
C19_Witness ==
    \E i, j \in Ids :
        /\ i # j
        /\ log[i].alloc = log[j].alloc
        /\ phase[i] = "dropped"
        /\ phase[j] = "dropped"
        /\ keyStrong[log[i].alloc] = 0
        /\ counter[log[i].alloc] = 0
        /\ Queued(log[i].key)

\* C20: every poll_next call ends with an item, Pending or completion, after
\* at most one pass more than the arrivals and notifications it consumed.
C20_PollNextReturns ==
    [][PollNext =>
          LET r == PollNextLoop(FilterState)
          IN  /\ r.ret \in {"item", "pending", "complete"}
              /\ r.st.passes <= (r.st.taken - taken)
                                 + (Len(dropped_keys) - Len(r.st.dk)) + 1]_vars

\* The bound on the passes alone: a pass that does not return has consumed an
\* arrival or a notification.
PollNextPassesBounded ==
    [][PollNext =>
          LET r == PollNextLoop(FilterState)
          IN  r.st.passes <= (r.st.taken - taken)
                              + (Len(dropped_keys) - Len(r.st.dk)) + 1]_vars

====
